---- MODULE Spec2Model ----
(***************************************************************************)
(* goldsrc_voice_extract: the Steam voice decoder (src/decoder.rs) and the *)
(* per-speaker timeline driver (src/main.rs) as one sequential state       *)
(* machine.                                                                *)
(*                                                                         *)
(* Representation choices:                                                 *)
(*  - f32 seconds are fixed-point integers, TimeUnits units per second,    *)
(*    so 0.1 s = 10000 and 0.2 s = 20000 are exact (as 0.2f32 - 0.1f32 -   *)
(*    0.1f32 = 0 is exact in the program); floor(time * SAMPLE_RATE) is    *)
(*    an integer floor division.                                           *)
(*  - byte buffers that only ever hold PCM (backlog, frame accumulator,    *)
(*    downstream output) are run-length encoded: a run [src, n] is n bytes,*)
(*    src = 0 for synthesized zero padding, src = s > 0 for the bytes with *)
(*    serial numbers s .. s+n-1 of what was appended to that speaker.      *)
(*  - the Opus codec is external: a packet decodes to the number of        *)
(*    samples its TOC byte announces, loss concealment fills the frame it  *)
(*    is given.                                                            *)
(***************************************************************************)
EXTENDS Integers, Sequences, FiniteSets, TLC

VARIABLES
    demo,             \* the opened replay: the frames of its directory entries
    fmt,              \* decoder sample format chosen by PlayerStream::new
    phase,            \* position of main: Scanning, Running, Flushing, Done
    fault,            \* "none", or why the process died
    idx,              \* index of the frame being processed
    midx,             \* index of the next voice message of that frame
    last_frame_time,  \* Option<f32>: << >> or <<t>>
    players,          \* HashMap<u64, PlayerStream>
    lastDecode,       \* trace of the latest SteamVoiceDecoder::decode call
    lastTick          \* what the latest handled frame did: its time, the
                      \* time of the latest frame that ticked, and per
                      \* speaker what that tick saw and released

vars == <<demo, fmt, phase, fault, idx, midx, last_frame_time, players,
          lastDecode, lastTick>>

----------------------------------------------------------------------------
(* Program constants *)

SAMPLE_RATE == 24000
FRAME_SIZE == 960
U16_MAX == 65535
MAX_LOST == 10
TMP_SAMPLES == 8192
SILENCE_SAMPLE_BYTES == 2
DEFAULT_FRAME_SAMPLES == 1024
TimeUnits == 100000
INITIAL_TIME_PAD_SECONDS == (2 * TimeUnits) \div 10

SampleFormats == {"S16", "FLT"}

BytesPerSample(f) == IF f = "S16" THEN 2 ELSE 4

Min(a, b) == IF a < b THEN a ELSE b

----------------------------------------------------------------------------
(* Run-length encoded byte buffers *)

Run(s, k) == [src |-> s, n |-> k]

RECURSIVE RunsLen(_)
RunsLen(rs) == IF rs = << >> THEN 0 ELSE Head(rs).n + RunsLen(Tail(rs))

\* push k bytes starting at serial s (s = 0: zero bytes) at the back
RunsPush(rs, s, k) ==
    IF k = 0 THEN rs
    ELSE IF rs = << >> THEN <<Run(s, k)>>
    ELSE LET l == rs[Len(rs)]
             joins == IF s = 0 THEN l.src = 0 ELSE l.src # 0 /\ l.src + l.n = s
         IN IF joins
            THEN [rs EXCEPT ![Len(rs)] = Run(l.src, l.n + k)]
            ELSE Append(rs, Run(s, k))

RECURSIVE RunsCat(_, _)
RunsCat(a, b) ==
    IF b = << >> THEN a
    ELSE RunsCat(RunsPush(a, Head(b).src, Head(b).n), Tail(b))

\* the first k bytes of rs (all of rs when it is shorter)
RECURSIVE RunsTake(_, _)
RunsTake(rs, k) ==
    IF k = 0 \/ rs = << >> THEN << >>
    ELSE IF Head(rs).n <= k
         THEN <<Head(rs)>> \o RunsTake(Tail(rs), k - Head(rs).n)
         ELSE <<Run(Head(rs).src, k)>>

\* rs without its first k bytes
RECURSIVE RunsDrop(_, _)
RunsDrop(rs, k) ==
    IF k = 0 \/ rs = << >> THEN rs
    ELSE IF Head(rs).n <= k
         THEN RunsDrop(Tail(rs), k - Head(rs).n)
         ELSE <<Run(IF Head(rs).src = 0 THEN 0 ELSE Head(rs).src + k,
                    Head(rs).n - k)>> \o Tail(rs)

\* number of bytes of rs that came out of the backlog (src # 0)
RECURSIVE RunsReal(_)
RunsReal(rs) ==
    IF rs = << >> THEN 0
    ELSE (IF Head(rs).src = 0 THEN 0 ELSE Head(rs).n) + RunsReal(Tail(rs))

----------------------------------------------------------------------------
(* Voice payload bytes *)

U16LE(v) == <<v % 256, v \div 256>>

\* one length-prefixed, sequence-numbered entry of an OpusPlc chunk
Entry(len, seq, payload) == U16LE(len) \o U16LE(seq) \o payload

Sentinel == U16LE(U16_MAX)

Pkt(t, v, d) == [type |-> t, val |-> v, data |-> d]
SampleRatePkt(rate) == Pkt("SampleRate", rate, << >>)
OpusPlcPkt(bytes) == Pkt("OpusPlc", 0, bytes)
SilencePkt(k) == Pkt("Silence", k, << >>)

----------------------------------------------------------------------------
(* decoder.rs *)

ReadU16(data) ==
    IF Len(data) < 2
    THEN [ok |-> FALSE, val |-> 0, rest |-> data]
    ELSE [ok |-> TRUE, val |-> data[1] + 256 * data[2],
          rest |-> SubSeq(data, 3, Len(data))]

\* samples per frame announced by a TOC byte at SAMPLE_RATE
OpusSamplesPerFrame(toc) ==
    LET size == (toc \div 8) % 4 IN
    IF toc \div 128 = 1 THEN (SAMPLE_RATE * (2 ^ size)) \div 400
    ELSE IF (toc \div 32) % 4 = 3
         THEN (IF (toc \div 8) % 2 = 1 THEN SAMPLE_RATE \div 50
                                       ELSE SAMPLE_RATE \div 100)
    ELSE IF size = 3 THEN (SAMPLE_RATE * 60) \div 1000
    ELSE (SAMPLE_RATE * (2 ^ size)) \div 100

\* frames in a packet: 0 when the packet is malformed
OpusFrames(input) ==
    LET code == input[1] % 4 IN
    IF code = 0 THEN 1
    ELSE IF code < 3 THEN 2
    ELSE IF Len(input) < 2 THEN 0
    ELSE input[2] % 64

\* Decoder::decode / decode_float: input, room in samples -> samples written
OpusDecode(input, frame_size) ==
    IF Len(input) = 0
    THEN [ok |-> TRUE, samples |-> frame_size]
    ELSE LET k == OpusFrames(input) * OpusSamplesPerFrame(input[1]) IN
         IF k = 0 \/ k * 25 > SAMPLE_RATE * 3 \/ k > frame_size
         THEN [ok |-> FALSE, samples |-> 0]
         ELSE [ok |-> TRUE, samples |-> k]

\* decode_fn: room is output.len(); ub when the slice handed to the codec is
\* longer than the output it was built from
DecodeFn(f, input, room) ==
    LET output_length ==
            (IF Len(input) = 0 THEN FRAME_SIZE ELSE room) \div BytesPerSample(f)
        r == OpusDecode(input, output_length)
    IN [ok |-> r.ok,
        count |-> r.samples * BytesPerSample(f),
        ub |-> output_length * BytesPerSample(f) > room]

Event(kind, len, seqBefore, seq, plc, resets, out, seqAfter, rest, status) ==
    [kind |-> kind, len |-> len, seqBefore |-> seqBefore, seq |-> seq,
     plc |-> plc, resets |-> resets, out |-> out, seqAfter |-> seqAfter,
     rest |-> rest, status |-> status]

\* Lost without the cap on concealed entries
Lost_Uncapped(seq, expected) == seq - expected

Lost(seq, expected) == Min(seq - expected, MAX_LOST)

\* one call of decode_fn with empty input inside the loss concealment loop
ConcealOnce(cap, acc, d) ==
    [total |-> acc.total + d.count,
     calls |-> acc.calls + 1,
     resets |-> acc.resets,
     ub |-> acc.ub \/ d.ub,
     status |-> IF ~d.ok THEN "OpusError"
                ELSE IF acc.total + d.count >= cap THEN "InsufficientOutputBuffer"
                ELSE "run"]

\* the loss concealment loop of one entry: lost iterations unless it returns early
RECURSIVE Conceal(_, _, _, _)
Conceal(f, cap, acc, lost) ==
    IF lost = 0 \/ acc.status # "run" THEN acc
    ELSE Conceal(f, cap,
                 ConcealOnce(cap, acc, DecodeFn(f, << >>, cap - acc.total)),
                 lost - 1)

ConcealStart(st, resets) ==
    [total |-> st.total, calls |-> 0, resets |-> resets, ub |-> st.ub,
     status |-> "run"]

\* Recover that never resets the decoder on a sequence number going back
Recover_NoReset(f, cap, st, seq) ==
    IF seq < st.seq THEN ConcealStart(st, 0)
    ELSE Conceal(f, cap, ConcealStart(st, 0), Lost(seq, st.seq))

\* seq < self.seq: reset_state; else the concealment loop
Recover(f, cap, st, seq) ==
    IF seq < st.seq THEN ConcealStart(st, 1)
    ELSE Conceal(f, cap, ConcealStart(st, 0), Lost(seq, st.seq))

\* self.seq = seq + 1
NextSeq(seq) == (seq + 1) % (U16_MAX + 1)

\* the sentinel arm: reset_state, seq = 0, continue
SentinelEntry(st, l) ==
    [st EXCEPT !.data = l.rest, !.seq = 0,
        !.events = Append(@, Event("sentinel", l.val, st.seq, 0, 0, 1, 0, 0,
                                   l.rest, "run"))]

\* read_u16 of the sequence number fails
TruncatedEntry(st, l) ==
    [st EXCEPT !.data = l.rest, !.status = "InsufficientData",
        !.events = Append(@, Event("truncated", l.val, st.seq, 0, 0, 0, 0,
                                   st.seq, l.rest, "InsufficientData"))]

\* an entry that ends the call before its payload is decoded
EntryStopped(st, l, s, c, status, after) ==
    [st EXCEPT !.data = s.rest, !.total = c.total, !.ub = c.ub, !.seq = after,
        !.status = status,
        !.events = Append(@, Event("entry", l.val, st.seq, s.val, c.calls,
                                   c.resets, c.total - st.total,
                                   after, s.rest, status))]

\* the payload decoded by d
EntryDecoded(cap, st, l, s, c, d) ==
    [st EXCEPT !.data = IF d.ok THEN SubSeq(s.rest, l.val + 1, Len(s.rest))
                        ELSE s.rest,
        !.total = c.total + d.count,
        !.ub = c.ub \/ d.ub,
        !.seq = NextSeq(s.val),
        !.status = IF ~d.ok THEN "OpusError"
                   ELSE IF c.total + d.count >= cap THEN "InsufficientOutputBuffer"
                   ELSE "run",
        !.events = Append(@, Event("entry", l.val, st.seq, s.val, c.calls,
                                   c.resets,
                                   c.total + d.count - st.total, NextSeq(s.val),
                                   IF d.ok THEN SubSeq(s.rest, l.val + 1, Len(s.rest))
                                   ELSE s.rest,
                                   IF ~d.ok THEN "OpusError"
                                   ELSE IF c.total + d.count >= cap
                                        THEN "InsufficientOutputBuffer"
                                   ELSE "run"))]

\* an entry after recovery c: seq + 1, the length check, the payload
EntryBody(f, cap, wrap, st, l, s, c) ==
    IF c.status # "run" THEN EntryStopped(st, l, s, c, c.status, st.seq)
    ELSE IF s.val + 1 > U16_MAX /\ ~wrap
    THEN EntryStopped(st, l, s, c, "Panic", st.seq)
    ELSE IF Len(s.rest) < l.val
    THEN EntryStopped(st, l, s, c, "InsufficientData", NextSeq(s.val))
    ELSE EntryDecoded(cap, st, l, s, c,
                      DecodeFn(f, SubSeq(s.rest, 1, l.val), cap - c.total))

SeqEntry(f, cap, wrap, st, l, s) ==
    IF ~s.ok THEN TruncatedEntry(st, l)
    ELSE EntryBody(f, cap, wrap, st, l, s, Recover(f, cap, st, s.val))

LenEntry(f, cap, wrap, st, l) ==
    IF l.val = U16_MAX THEN SentinelEntry(st, l)
    ELSE SeqEntry(f, cap, wrap, st, l, ReadU16(l.rest))

\* one pass through the body of decode_opus's while loop; wrap: the build
\* wraps on integer overflow (release) instead of panicking (debug)
DecodeOpusIter(f, cap, wrap, st) == LenEntry(f, cap, wrap, st, ReadU16(st.data))

\* the loop condition of decode_opus
MoreEntries(data) == Len(data) > 2

RECURSIVE DecodeOpus(_, _, _, _)
DecodeOpus(f, cap, wrap, st) ==
    IF st.status # "run" THEN st
    ELSE IF MoreEntries(st.data)
         THEN DecodeOpus(f, cap, wrap, DecodeOpusIter(f, cap, wrap, st))
         ELSE [st EXCEPT !.status = "ok",
                  !.events = Append(@, Event("exit", 0, st.seq, 0, 0, 0, 0,
                                             st.seq, st.data, "ok"))]

\* the OpusPlc arm once decode_opus returned r
OpusArm(cap, st, r) ==
    [total |-> IF r.status = "ok" THEN st.total + r.total ELSE st.total,
     seq |-> r.seq,
     ub |-> r.ub,
     events |-> r.events,
     status |-> IF r.status # "ok" THEN r.status
                ELSE IF st.total + r.total >= cap THEN "InsufficientOutputBuffer"
                ELSE "run"]

\* one arm of the match in SteamVoiceDecoder::decode
DecodePacket(f, cap, wrap, p, st) ==
    IF p.type = "SampleRate"
    THEN (IF p.val # SAMPLE_RATE THEN [st EXCEPT !.status = "Panic"] ELSE st)
    ELSE IF p.type = "Silence"
    THEN [st EXCEPT !.total = @ + p.val * SILENCE_SAMPLE_BYTES,
             !.events = Append(@, Event("silence", p.val, st.seq, 0, 0, 0,
                                        p.val * SILENCE_SAMPLE_BYTES, st.seq,
                                        << >>, "run"))]
    ELSE IF p.type # "OpusPlc" \/ st.total > cap
    THEN [st EXCEPT !.status = "Panic"]
    ELSE OpusArm(cap, st,
                 DecodeOpus(f, cap - st.total, wrap,
                            [data |-> p.data, total |-> 0, seq |-> st.seq,
                             status |-> "run", ub |-> st.ub,
                             events |-> st.events]))

\* SteamVoiceDecoder::decode over the packets of one voice message
RECURSIVE Decode(_, _, _, _, _)
Decode(f, cap, wrap, pkts, st) ==
    IF st.status # "run" THEN st
    ELSE IF pkts = << >> THEN [st EXCEPT !.status = "ok"]
    ELSE Decode(f, cap, wrap, Tail(pkts), DecodePacket(f, cap, wrap, Head(pkts), st))

DecodeStart(seq) ==
    [total |-> 0, seq |-> seq, status |-> "run", ub |-> FALSE, events |-> << >>]

----------------------------------------------------------------------------
(* main.rs: PlayerStream *)

FrameSamples == DEFAULT_FRAME_SAMPLES

\* PlayerStream::new; appended, released and emitted record what went in,
\* what was released to the timeline and what was sent to the encoder, waited
\* the tick durations since the warm-up was last armed
NewPlayer ==
    [decoded_samples |-> << >>,
     time_pad |-> INITIAL_TIME_PAD_SECONDS,
     playing |-> FALSE,
     frame_accum |-> << >>,
     pts |-> 0,
     last_demo_pts |-> 0,
     seq |-> 0,
     appended |-> 0,
     waited |-> 0,
     released |-> 0,
     emitted |-> << >>]

buffered_samples(ps) == RunsLen(ps.decoded_samples)

\* append_samples that leaves the warm-up as it is
append_samples_NoRearm(ps, k) ==
    [ps EXCEPT !.decoded_samples = RunsPush(@, ps.appended + 1, k),
               !.appended = @ + k,
               !.waited = IF buffered_samples(ps) = 0 THEN 0 ELSE @]

\* append_samples that restarts the warm-up on every append
append_samples_RearmAlways(ps, k) ==
    [ps EXCEPT !.time_pad = INITIAL_TIME_PAD_SECONDS,
               !.decoded_samples = RunsPush(@, ps.appended + 1, k),
               !.appended = @ + k,
               !.waited = IF buffered_samples(ps) = 0 THEN 0 ELSE @]

\* append_samples with a slice of k bytes
append_samples(ps, k) ==
    [ps EXCEPT !.time_pad = IF buffered_samples(ps) = 0
                            THEN INITIAL_TIME_PAD_SECONDS ELSE @,
               !.decoded_samples = RunsPush(@, ps.appended + 1, k),
               !.appended = @ + k,
               !.waited = IF buffered_samples(ps) = 0 THEN 0 ELSE @]

\* consume_samples that hands out only what the backlog holds
consume_samples_NoPad(f, ps, sample_count) ==
    [out |-> RunsTake(ps.decoded_samples, sample_count * BytesPerSample(f)),
     left |-> RunsDrop(ps.decoded_samples, sample_count * BytesPerSample(f))]

\* consume_samples that copies from the backlog without removing
consume_samples_Peek(f, ps, sample_count) ==
    [out |-> RunsPush(RunsTake(ps.decoded_samples, sample_count * BytesPerSample(f)),
                      0,
                      sample_count * BytesPerSample(f)
                        - Min(sample_count * BytesPerSample(f), buffered_samples(ps))),
     left |-> ps.decoded_samples]

\* consume_samples: the bytes handed out, and the backlog left
consume_samples(f, ps, sample_count) ==
    [out |-> RunsPush(RunsTake(ps.decoded_samples, sample_count * BytesPerSample(f)),
                      0,
                      sample_count * BytesPerSample(f)
                        - Min(sample_count * BytesPerSample(f), buffered_samples(ps))),
     left |-> RunsDrop(ps.decoded_samples, sample_count * BytesPerSample(f))]

\* floor(demo_frame.time * SAMPLE_RATE)
TimeAsPts(time) == (time * SAMPLE_RATE) \div TimeUnits

\* the warm-up countdown that starts playback only once time_pad is below zero
WarmUp_Strict(ps, frametime) ==
    IF ps.time_pad > 0 /\ buffered_samples(ps) # 0
    THEN [ps EXCEPT !.time_pad = @ - frametime,
                    !.playing = IF ps.time_pad - frametime < 0 THEN TRUE ELSE @]
    ELSE ps

\* the warm-up countdown of one tick
WarmUp(ps, frametime) ==
    IF ps.time_pad > 0 /\ buffered_samples(ps) # 0
    THEN [ps EXCEPT !.time_pad = @ - frametime,
                    !.playing = IF ps.time_pad - frametime <= 0 THEN TRUE ELSE @]
    ELSE ps

\* Consumed that keeps playing over an empty backlog
Consumed_KeepPlaying(ps, c) ==
    [out |-> c.out, ps |-> [ps EXCEPT !.decoded_samples = c.left]]

\* Consumed that stops playing only on the tick after the backlog ran dry
Consumed_DisarmLate(ps, c) ==
    [out |-> c.out,
     ps |-> [ps EXCEPT !.decoded_samples = c.left,
                       !.playing = IF buffered_samples(ps) = 0 THEN FALSE ELSE @]]

\* the backlog after consume_samples returned c
Consumed(ps, c) ==
    [out |-> c.out,
     ps |-> [ps EXCEPT !.decoded_samples = c.left,
                       !.playing = IF RunsLen(c.left) = 0 THEN FALSE ELSE @]]

\* the samples of one tick: from the backlog while playing, else silence
Release(f, ps, due) ==
    IF ps.playing
    THEN Consumed(ps, consume_samples(f, ps, due))
    ELSE [out |-> RunsPush(<< >>, 0, due * BytesPerSample(f)), ps |-> ps]

\* EmitFrames that also sends the incomplete last frame
EmitFrames_Partial(ps, samples, frame_size_bytes, released) ==
    [ps EXCEPT
        !.emitted = RunsCat(@, samples),
        !.pts = @ + (RunsLen(samples) \div frame_size_bytes) * FrameSamples,
        !.frame_accum = << >>,
        !.released = @ + released]

\* samples = frame_accum ++ frame_samples; whole frames go to the encoder
EmitFrames(ps, samples, frame_size_bytes, released) ==
    [ps EXCEPT
        !.emitted = RunsCat(@, RunsTake(samples,
                        (RunsLen(samples) \div frame_size_bytes) * frame_size_bytes)),
        !.pts = @ + (RunsLen(samples) \div frame_size_bytes) * FrameSamples,
        !.frame_accum = RunsDrop(samples,
                        (RunsLen(samples) \div frame_size_bytes) * frame_size_bytes),
        !.released = @ + released]

\* the frame accumulator
Accumulate(f, ps, frame_samples) ==
    EmitFrames(ps, RunsCat(ps.frame_accum, frame_samples),
               FrameSamples * BytesPerSample(f), RunsLen(frame_samples))

TickResult(f, w, due, r) ==
    [ps |-> Accumulate(f, r.ps, r.out),
     info |-> [playing |-> w.playing, backlog |-> w.decoded_samples,
               due |-> due, out |-> r.out]]

\* demo_frame_sample_count and what follows, after the warm-up left w
TickDue(f, w, pts, due) ==
    TickResult(f, w, due, Release(f, [w EXCEPT !.last_demo_pts = pts], due))

\* the body of the per-speaker loop of one tick
TickPlayer(f, ps, frametime, pts) ==
    TickDue(f, WarmUp([ps EXCEPT !.waited = @ + frametime], frametime), pts,
            pts - ps.last_demo_pts)

\* FrameTime without the clamp at zero
FrameTime_Signed(last, time) ==
    IF last = << >> THEN 0 ELSE time - last[1]

\* max(0, time - prev), 0 for the first frame
FrameTime(last, time) ==
    IF last = << >> THEN 0
    ELSE IF time - last[1] > 0 THEN time - last[1] ELSE 0

----------------------------------------------------------------------------
(* Replays *)

MaxFrames == 3
MaxItems == 2

SeqsUpTo(S, k) == UNION {[1..j -> S] : j \in 0..k}

RECURSIVE Flatten(_)
Flatten(ss) == IF ss = << >> THEN << >> ELSE Head(ss) \o Flatten(Tail(ss))

Frame(startup, time, voice) == [startup |-> startup, time |-> time, voice |-> voice]
Msg(ok, id, pkts) == [ok |-> ok, steam_id |-> id, packets |-> pkts]

\* Opus TOC bytes: 20 ms, 40 ms, 60 ms SILK frames, a 2.5 ms CELT frame,
\* and a code-3 packet with no frame count
Toc20 == <<8>>
Toc40 == <<16>>
Toc60 == <<24>>
Toc2 == <<128>>
TocBad == <<11>>

\* 2400 samples: a 60 ms and a 40 ms frame with consecutive sequence numbers
Chunk2400 == Entry(1, 0, Toc60) \o Entry(1, 1, Toc40)

FrameTimes == {0, 10000, 20000, 25001}

TimelineVoices ==
    { << >>,
      <<Msg(TRUE, 1, <<OpusPlcPkt(Chunk2400)>>)>>,
      <<Msg(TRUE, 2, <<OpusPlcPkt(Chunk2400)>>)>> }

TimelineFrames == {Frame(FALSE, t, v) : t \in FrameTimes, v \in TimelineVoices}

TimelineDemos == SeqsUpTo(TimelineFrames, MaxFrames)

\* the pieces an OpusPlc chunk is put together from
Items ==
    { Entry(1, 0, Toc20),
      Entry(1, 1, Toc20),
      Entry(1, 4, Toc2),
      Entry(1, 40, Toc60),
      Entry(1, U16_MAX, Toc60),
      Entry(0, 2, << >>),
      Entry(5, 2, Toc20),
      Entry(1, 6, TocBad),
      Sentinel,
      <<0>> }

Chunks == {Flatten(items) : items \in SeqsUpTo(Items, MaxItems)}

SilenceCounts == {0, 100, 2400, 7712, 8192, 8193, U16_MAX}

DecodeMessages ==
    {<<OpusPlcPkt(c)>> : c \in Chunks}
    \cup {<<SilencePkt(k)>> : k \in SilenceCounts}
    \cup {<<SilencePkt(k), OpusPlcPkt(Entry(1, 0, Toc20))>> : k \in SilenceCounts}
    \cup {<<OpusPlcPkt(Entry(1, 3, Toc20)), SilencePkt(k)>> : k \in SilenceCounts}
    \cup {<<SampleRatePkt(r), OpusPlcPkt(Entry(1, 0, Toc20))>> : r \in {SAMPLE_RATE, 16000}}
    \cup {<<Pkt("Malformed", 0, << >>)>>}

DecodeDemos ==
    {<<Frame(FALSE, 0, <<Msg(TRUE, 1, m)>>), Frame(FALSE, 10000, << >>)>> :
        m \in DecodeMessages}

OtherDemos ==
    { <<Frame(FALSE, 0, <<Msg(FALSE, 1, << >>)>>)>>,
      <<Frame(TRUE, 5000, <<Msg(TRUE, 2, <<SilencePkt(100)>>)>>),
        Frame(FALSE, 0, <<Msg(TRUE, 1, <<SilencePkt(100)>>)>>),
        Frame(FALSE, 10000, << >>)>> }

\* replays whose clock steps back from 0.2 s to 0.1 s and then forward again
BackwardsDemos ==
    {<<Frame(FALSE, 0, v), Frame(FALSE, 20000, << >>),
       Frame(FALSE, 10000, << >>), Frame(FALSE, t, << >>)>> :
        t \in {15000, 20000, 25001}, v \in TimelineVoices}

----------------------------------------------------------------------------
(* main.rs: main *)

NoDecode ==
    [key |-> 0, status |-> "none", total |-> 0, cap |-> 0, ub |-> FALSE,
     seqBefore |-> 0, events |-> << >>]

NoTick ==
    [ticked |-> FALSE, frametime |-> 0, time |-> 0, tickTime |-> 0, info |-> << >>]

Init ==
    /\ \/ demo \in TimelineDemos
       \/ demo \in DecodeDemos
       \/ demo \in OtherDemos
       \/ demo \in BackwardsDemos
    /\ fmt \in SampleFormats
    /\ phase = "Scanning"
    /\ fault = "none"
    /\ idx = 1
    /\ midx = 1
    /\ last_frame_time = << >>
    /\ players = << >>
    /\ lastDecode = NoDecode
    /\ lastTick = NoTick

\* a scan that stops after the first frame
ScannedMessages_FirstFrame ==
    IF demo = << >> \/ demo[1].startup THEN {}
    ELSE {demo[1].voice[j] : j \in 1..Len(demo[1].voice)}

\* the voice messages discover_players visits
ScannedMessages ==
    UNION {{demo[i].voice[j] : j \in 1..Len(demo[i].voice)} :
             i \in {i \in 1..Len(demo) : ~demo[i].startup}}

PhaseAt(i) == IF i > Len(demo) THEN "Flushing" ELSE "Running"

\* discover_players, then write_header
DiscoverPlayers ==
    /\ phase = "Scanning" /\ fault = "none"
    /\ IF \E m \in ScannedMessages : ~m.ok
       THEN /\ fault' = "ParseFailed"
            /\ UNCHANGED <<phase, players>>
       ELSE /\ players' = [k \in {m.steam_id : m \in ScannedMessages} |-> NewPlayer]
            /\ phase' = PhaseAt(1)
            /\ fault' = "none"
    /\ UNCHANGED <<demo, fmt, idx, midx, last_frame_time, lastDecode, lastTick>>

\* an entry of type 0 (DEMO_STARTUP) is passed over
SkipStartup ==
    /\ phase = "Running" /\ fault = "none"
    /\ demo[idx].startup
    /\ idx' = idx + 1
    /\ midx' = 1
    /\ phase' = PhaseAt(idx + 1)
    /\ UNCHANGED <<demo, fmt, fault, last_frame_time, players, lastDecode, lastTick>>

TmpLen == TMP_SAMPLES * BytesPerSample(fmt)

\* what becomes of one voice message: the decode result r, whether memory
\* written past the buffer takes the process down
VoiceFault(key, r, crash) ==
    IF key \notin DOMAIN players THEN "UnknownSpeaker"
    ELSE IF r.status = "Panic" THEN "DecodePanic"
    ELSE IF r.ub /\ crash THEN "MemoryCorruption"
    ELSE IF r.status = "ok" /\ r.total > TmpLen THEN "SliceIndex"
    ELSE "none"

\* the message decoded to r for speaker key, with fault flt
VoiceDone(key, seq0, r, flt) ==
    /\ fault' = flt
    /\ IF flt # "none"
       THEN UNCHANGED <<midx, players>>
       ELSE /\ midx' = midx + 1
            /\ players' =
                 [players EXCEPT ![key] =
                    IF r.status = "ok"
                    THEN append_samples([@ EXCEPT !.seq = r.seq], r.total)
                    ELSE [@ EXCEPT !.seq = r.seq]]
    /\ lastDecode' = [key |-> key, status |-> r.status, total |-> r.total,
                      cap |-> TmpLen, ub |-> r.ub, seqBefore |-> seq0,
                      events |-> r.events]

VoiceDecoded(key, seq0, r, crash) ==
    VoiceDone(key, seq0, r, VoiceFault(key, r, crash))

DecoderSeq(key) == IF key \in DOMAIN players THEN players[key].seq ELSE 0

VoiceMessage(m) ==
    IF ~m.ok
    THEN /\ midx' = midx + 1
         /\ UNCHANGED <<fault, players, lastDecode>>
    ELSE \E wrap \in BOOLEAN, crash \in BOOLEAN :
            VoiceDecoded(m.steam_id, DecoderSeq(m.steam_id),
                         Decode(fmt, TmpLen, wrap, m.packets,
                                DecodeStart(DecoderSeq(m.steam_id))),
                         crash)

\* one SvcVoiceData message of the current frame
HandleVoice ==
    /\ phase = "Running" /\ fault = "none"
    /\ ~demo[idx].startup
    /\ midx <= Len(demo[idx].voice)
    /\ VoiceMessage(demo[idx].voice[midx])
    /\ UNCHANGED <<demo, fmt, phase, idx, last_frame_time, lastTick>>

NextFrame ==
    /\ idx' = idx + 1
    /\ midx' = 1
    /\ phase' = PhaseAt(idx + 1)

\* TickAll that advances only the speakers heard in the current frame
TickAll_Heard(frametime, pts) ==
    [k \in DOMAIN players |->
        IF \E j \in 1..Len(demo[idx].voice) : demo[idx].voice[j].steam_id = k
        THEN TickPlayer(fmt, players[k], frametime, pts)
        ELSE [ps |-> players[k],
              info |-> [playing |-> players[k].playing,
                        backlog |-> players[k].decoded_samples,
                        due |-> 0, out |-> << >>]]]

TickAll(frametime, pts) ==
    [k \in DOMAIN players |-> TickPlayer(fmt, players[k], frametime, pts)]

TickFrame(time, frametime, t) ==
    /\ last_frame_time' = <<time>>
    /\ IF frametime = 0
       THEN /\ lastTick' = [ticked |-> FALSE, frametime |-> 0, time |-> time,
                            tickTime |-> lastTick.tickTime, info |-> << >>]
            /\ UNCHANGED <<players, fault>>
            /\ NextFrame
       ELSE IF \E k \in DOMAIN players : t[k].info.due < 0
       THEN /\ fault' = "CapacityOverflow"
            /\ UNCHANGED <<players, lastTick, idx, midx, phase>>
       ELSE /\ players' = [k \in DOMAIN players |-> t[k].ps]
            /\ lastTick' = [ticked |-> TRUE, frametime |-> frametime,
                            time |-> time, tickTime |-> time,
                            info |-> [k \in DOMAIN players |-> t[k].info]]
            /\ fault' = "none"
            /\ NextFrame

\* the rest of the frame: the tick of every speaker
Tick ==
    /\ phase = "Running" /\ fault = "none"
    /\ ~demo[idx].startup
    /\ midx > Len(demo[idx].voice)
    /\ TickFrame(demo[idx].time,
                 FrameTime(last_frame_time, demo[idx].time),
                 TickAll(FrameTime(last_frame_time, demo[idx].time),
                         TimeAsPts(demo[idx].time)))
    /\ UNCHANGED <<demo, fmt, lastDecode>>

\* send_frame(None) to every encoder, then write_trailer
Flush ==
    /\ phase = "Flushing" /\ fault = "none"
    /\ phase' = "Done"
    /\ UNCHANGED <<demo, fmt, fault, idx, midx, last_frame_time, players,
                   lastDecode, lastTick>>

Next == DiscoverPlayers \/ SkipStartup \/ HandleVoice \/ Tick \/ Flush

Spec == Init /\ [][Next]_vars

----------------------------------------------------------------------------
(* Properties *)

Range(q) == {q[i] : i \in 1..Len(q)}

\* everything released for speaker p so far, in release order
Stream(p) == RunsCat(players[p].emitted, players[p].frame_accum)

Floor24k(time) == (time * 24000) \div TimeUnits

\* the state right after a frame's tick released samples
JustTicked == lastTick.ticked /\ midx = 1

DecodeEvents == Range(lastDecode.events)

\* entries of the latest decode whose sequence number is not behind
GapEntries == {e \in DecodeEvents : e.kind = "entry" /\ e.seq >= e.seqBefore}

\* entries of the latest decode whose sequence number is behind
RestartEntries == {e \in DecodeEvents : e.kind = "entry" /\ e.seq < e.seqBefore}

\* C1, as stated: after every handled frame, every speaker's cumulative
\* released sample count is floor(frame.time * 24000), the first frame,
\* duplicate timestamps and any timestamp sequence included.
C1_Original ==
    \A p \in DOMAIN players :
        (last_frame_time # << >> /\ fault = "none") =>
            players[p].released = BytesPerSample(fmt) * Floor24k(last_frame_time[1])

\* C1, amended: after every handled frame, every speaker's cumulative released
\* sample count is floor(T * 24000), T the time of the latest frame whose tick
\* duration was positive (nothing before the first such frame); after a frame
\* with positive tick duration T is that frame's time.
C1_FrameLocked ==
    \A p \in DOMAIN players :
        /\ players[p].released = BytesPerSample(fmt) * Floor24k(lastTick.tickTime)
        /\ RunsLen(Stream(p)) = players[p].released
        /\ lastTick.ticked => lastTick.tickTime = last_frame_time[1]

C1_Witness ==
    \E p \in DOMAIN players :
        /\ lastTick.ticked
        /\ last_frame_time = <<25001>>
        /\ RunsReal(Stream(p)) > 0
        /\ players[p].released = BytesPerSample(fmt) * 6000

\* one speaker, frames at 0.0, 0.1 and 0.2 s, 2400 samples delivered at 0.1 s
C2Demo ==
    <<Frame(FALSE, 0, << >>),
      Frame(FALSE, 10000, <<Msg(TRUE, 1, <<OpusPlcPkt(Chunk2400)>>)>>),
      Frame(FALSE, 20000, << >>)>>

\* C2, as stated: in that replay nothing leaves the backlog through the
\* t = 0.2 tick and the backlog holds 2400 samples after it.
C2_Original ==
    (demo = C2Demo /\ phase # "Scanning" /\ fault = "none") =>
        /\ idx >= 3 => RunsReal(Stream(1)) = 0
        /\ idx = 4 => /\ buffered_samples(players[1]) = 2400 * BytesPerSample(fmt)
                      /\ ~lastTick.info[1].playing

\* C2, amended: in that replay nothing leaves the backlog through the t = 0.1
\* tick, after which it holds 2400 samples with 0.1 s of warm-up left; the
\* t = 0.2 tick burns the rest of the warm-up, the speaker plays, the 2400
\* samples are released and the backlog is empty after it.
C2_Scenario ==
    (demo = C2Demo /\ phase # "Scanning") =>
        /\ fault = "none"
        /\ idx = 3 => /\ buffered_samples(players[1]) = 2400 * BytesPerSample(fmt)
                      /\ RunsReal(Stream(1)) = 0
                      /\ ~players[1].playing
                      /\ players[1].time_pad = 10000
                      /\ players[1].released = 2400 * BytesPerSample(fmt)
        /\ idx = 4 => /\ lastTick.info[1].playing
                      /\ buffered_samples(players[1]) = 0
                      /\ RunsReal(Stream(1)) = 2400 * BytesPerSample(fmt)
                      /\ ~players[1].playing
                      /\ players[1].time_pad = 0
                      /\ players[1].released = 4800 * BytesPerSample(fmt)

C2_Witness ==
    /\ demo = C2Demo /\ idx = 4 /\ phase = "Flushing"
    /\ buffered_samples(players[1]) = 0
    /\ RunsReal(Stream(1)) = 2400 * BytesPerSample(fmt)

\* C3, as stated: an entry with seq >= expectedSequence gets exactly
\* min(seq - expectedSequence, 10) loss-concealment decodes.
C3_Original ==
    \A e \in GapEntries : e.plc = Min(e.seq - e.seqBefore, 10)

\* C3, amended: an entry with seq >= expectedSequence gets at most
\* min(seq - expectedSequence, 10) loss-concealment decodes, never more than
\* 10 and no reset, and exactly that many unless the call ends with
\* InsufficientOutputBuffer inside the concealment loop.
C3_Concealment ==
    \A e \in GapEntries :
        /\ e.plc <= 10
        /\ e.resets = 0
        /\ \/ e.plc = Min(e.seq - e.seqBefore, 10)
           \/ /\ e.plc < Min(e.seq - e.seqBefore, 10)
              /\ e.status = "InsufficientOutputBuffer"
              /\ lastDecode.status = "InsufficientOutputBuffer"

C3_Witness ==
    \E e \in GapEntries :
        /\ e.seq - e.seqBefore = 65535
        /\ e.plc = 10
        /\ fault = "none"

C5_Original ==
    \A e \in DecodeEvents :
        /\ e.kind = "sentinel" => e.resets = 1 /\ e.seqAfter = 0 /\ e.out = 0
        /\ e.kind = "exit" =>
              ~(Len(e.rest) >= 2 /\ e.rest[1] = 255 /\ e.rest[2] = 255)

\* C6: a tick of a playing speaker releases exactly due samples, the backlog
\* first and zeros after it when the backlog is short, does not fail, and
\* leaves the speaker playing exactly when samples remain.
C6_Underrun ==
    /\ fault = "CapacityOverflow" =>
          \E p \in DOMAIN players :
              Floor24k(last_frame_time[1]) < players[p].last_demo_pts
    /\ JustTicked =>
          \A p \in DOMAIN players :
              lastTick.info[p].playing =>
                  /\ RunsLen(lastTick.info[p].out)
                        = lastTick.info[p].due * BytesPerSample(fmt)
                  /\ RunsLen(lastTick.info[p].backlog)
                        < lastTick.info[p].due * BytesPerSample(fmt) =>
                        lastTick.info[p].out
                          = RunsPush(lastTick.info[p].backlog, 0,
                                     lastTick.info[p].due * BytesPerSample(fmt)
                                       - RunsLen(lastTick.info[p].backlog))
                  /\ players[p].playing = (buffered_samples(players[p]) # 0)

C6_Witness ==
    /\ JustTicked
    /\ \E p \in DOMAIN players :
          /\ lastTick.info[p].playing
          /\ RunsLen(lastTick.info[p].backlog) > 0
          /\ RunsLen(lastTick.info[p].backlog)
                < lastTick.info[p].due * BytesPerSample(fmt)
          /\ RunsReal(lastTick.info[p].out) < RunsLen(lastTick.info[p].out)
          /\ ~players[p].playing

\* C7: the warm-up goes down only on a tick that finds the backlog non-empty;
\* an append to an empty backlog puts it back to 0.2 s; a speaker starts
\* playing only after ticks adding up to 0.2 s since that append.
C7_WarmUp ==
    [][\A p \in DOMAIN players :
          /\ players'[p].time_pad < players[p].time_pad =>
                /\ buffered_samples(players[p]) # 0
                /\ lastTick'.ticked /\ idx' = idx + 1
          /\ (players'[p].appended > players[p].appended
                /\ buffered_samples(players[p]) = 0) =>
                players'[p].time_pad = 20000
          /\ (players'[p].playing /\ ~players[p].playing) =>
                players'[p].waited >= 20000]_vars

C7_Witness ==
    \E p \in DOMAIN players :
        /\ RunsReal(Stream(p)) > 0
        /\ buffered_samples(players[p]) > 0
        /\ ~players[p].playing
        /\ players[p].time_pad > 0 /\ players[p].time_pad < 20000
        /\ players[p].waited < 20000

\* C8, as stated: SilenceRun(n) adds n zero samples, n * bytes-per-sample
\* bytes, in either sample format, for every n, and leaves the decoder alone.
C8_Original ==
    /\ \A e \in DecodeEvents :
          e.kind = "silence" =>
              /\ e.out = e.len * BytesPerSample(fmt)
              /\ e.seqAfter = e.seqBefore /\ e.resets = 0 /\ e.plc = 0
    /\ (lastDecode.events # << >> /\ \A e \in DecodeEvents : e.kind = "silence") =>
          /\ fault = "none"
          /\ lastDecode.status = "ok"

\* C9, as stated: decode never returns more bytes than the buffer holds,
\* never reaches past the buffer, and reports output that does not fit as
\* InsufficientOutputBuffer.
C9_Original ==
    /\ lastDecode.status = "ok" => lastDecode.total <= lastDecode.cap
    /\ ~lastDecode.ub
    /\ fault \notin {"SliceIndex", "MemoryCorruption"}

\* C10, as stated: at the end of the conversion every released byte of every
\* speaker has been handed downstream.
C10_Original ==
    phase = "Done" =>
        \A p \in DOMAIN players : RunsLen(players[p].emitted) = players[p].released

\* C11, as stated: whatever the frame timestamps do, no speaker's
\* timelineSamplePosition ever goes down, and the sample count of a tick,
\* targetPosition - timelineSamplePosition, is never negative.
C11_Original ==
    /\ fault # "CapacityOverflow"
    /\ (/\ phase = "Running" /\ fault = "none"
        /\ ~demo[idx].startup
        /\ midx > Len(demo[idx].voice)
        /\ FrameTime(last_frame_time, demo[idx].time) > 0) =>
          \A p \in DOMAIN players :
              TimeAsPts(demo[idx].time) >= players[p].last_demo_pts

\* C12, as stated: a voice message whose decode fails with InsufficientData
\* or InsufficientOutputBuffer leaves the speaker's backlog and warm-up as
\* they were, does not end the conversion, and the driver goes on to the next
\* message and the tick of the frame.
C12_Original ==
    [][(/\ phase = "Running" /\ fault = "none"
        /\ ~demo[idx].startup
        /\ midx <= Len(demo[idx].voice)
        /\ lastDecode'.status \in {"InsufficientData", "InsufficientOutputBuffer"}) =>
          /\ fault' = "none"
          /\ midx' = midx + 1
          /\ idx' = idx /\ phase' = "Running"
          /\ \A p \in DOMAIN players :
                /\ players'[p].decoded_samples = players[p].decoded_samples
                /\ players'[p].time_pad = players[p].time_pad
                /\ players'[p].playing = players[p].playing]_vars

\* bytes of one downstream frame
FrameBytes == FrameSamples * BytesPerSample(fmt)

\* C13: downstream frames leave in whole frames only, in release order: a
\* step that sends k frames raises the presentation timestamp by k times the
\* frame sample count and only adds to what was sent; the frame accumulator
\* always holds less than one frame, and presentation timestamp x bytes per
\* sample + accumulator length is the number of bytes released so far, the
\* latest tick's bytes last.
C13_Accumulator ==
    /\ [][\A p \in DOMAIN players :
              /\ players'[p].pts >= players[p].pts
              /\ players'[p].pts - players[p].pts
                    = FrameSamples *
                      ((RunsLen(players'[p].emitted) - RunsLen(players[p].emitted))
                         \div FrameBytes)
              /\ RunsTake(players'[p].emitted, RunsLen(players[p].emitted))
                    = players[p].emitted]_vars
    /\ [](\A p \in DOMAIN players :
            /\ RunsLen(players[p].frame_accum) < FrameBytes
            /\ RunsLen(players[p].emitted) % FrameBytes = 0
            /\ players[p].pts = FrameSamples * (RunsLen(players[p].emitted) \div FrameBytes)
            /\ players[p].pts * BytesPerSample(fmt) + RunsLen(players[p].frame_accum)
                  = players[p].released
            /\ JustTicked =>
                  Stream(p) = RunsCat(RunsTake(Stream(p),
                                               players[p].released
                                                 - RunsLen(lastTick.info[p].out)),
                                      lastTick.info[p].out))

C13_Witness ==
    \E p \in DOMAIN players :
        /\ JustTicked
        /\ players[p].pts = 4 * FrameSamples
        /\ RunsLen(players[p].frame_accum) > 0
        /\ RunsReal(players[p].emitted) > 0
        /\ RunsReal(players[p].frame_accum) > 0

\* the step that ends the handling of the current frame
FrameEnds == phase = "Running" /\ ~demo[idx].startup /\ idx' = idx + 1

\* the current frame is the first one, or not later than the one before it
ZeroDuration == last_frame_time = << >> \/ demo[idx].time <= last_frame_time[1]

\* C14: a frame that is the first one, repeats the previous timestamp or lies
\* before it only decodes its voice messages into backlogs (an append to an
\* empty backlog puts the warm-up back to 0.2 s): no step of it changes a
\* speaker's isPlaying, timelineSamplePosition, frame accumulator,
\* presentation timestamp or released samples, and its last step changes no
\* speaker at all.
C14_ZeroTick ==
    [][(phase = "Running" /\ ~demo[idx].startup /\ ZeroDuration) =>
          /\ \A p \in DOMAIN players :
                /\ players'[p].playing = players[p].playing
                /\ players'[p].last_demo_pts = players[p].last_demo_pts
                /\ players'[p].frame_accum = players[p].frame_accum
                /\ players'[p].pts = players[p].pts
                /\ players'[p].emitted = players[p].emitted
                /\ players'[p].released = players[p].released
                /\ players'[p].decoded_samples
                      = RunsCat(players[p].decoded_samples,
                                RunsDrop(players'[p].decoded_samples,
                                         buffered_samples(players[p])))
                /\ (players'[p].appended > players[p].appended
                      /\ buffered_samples(players[p]) = 0) =>
                      players'[p].time_pad = INITIAL_TIME_PAD_SECONDS
          /\ FrameEnds => players' = players /\ ~lastTick'.ticked]_vars

C14_Witness ==
    \E p \in DOMAIN players :
        /\ fault = "none" /\ midx = 1 /\ idx = 4
        /\ ~lastTick.ticked
        /\ last_frame_time # << >>
        /\ last_frame_time[1] < lastTick.tickTime
        /\ players[p].released > 0
        /\ buffered_samples(players[p]) > 0
        /\ demo[3].voice # << >>

\* the speakers with a voice message in frame i
Heard(i) == {demo[i].voice[j].steam_id : j \in 1..Len(demo[i].voice)}

\* C15: a tick with positive duration advances every speaker found by the
\* pre-scan, heard in that frame or not: each is moved to the frame's sample
\* position and releases the samples due; so all speakers always share one
\* timelineSamplePosition and one cumulative released sample count.
C15_AllAdvance ==
    /\ \A p, q \in DOMAIN players :
          /\ players[p].last_demo_pts = players[q].last_demo_pts
          /\ players[p].released = players[q].released
    /\ JustTicked =>
          /\ DOMAIN lastTick.info = DOMAIN players
          /\ \A p \in DOMAIN players :
                /\ players[p].last_demo_pts = TimeAsPts(last_frame_time[1])
                /\ RunsLen(lastTick.info[p].out)
                      = lastTick.info[p].due * BytesPerSample(fmt)
                /\ players[p].released
                      = players[p].last_demo_pts * BytesPerSample(fmt)

C15_Witness ==
    /\ JustTicked
    /\ \E p, q \in DOMAIN players :
          /\ p \in Heard(idx - 1) /\ q \notin Heard(idx - 1)
          /\ players[q].appended = 0
          /\ lastTick.info[q].due > 0
          /\ lastTick.info[p].due = lastTick.info[q].due
          /\ players[q].released > 0

\* the speaker keys of all voice messages the frame loop will look up
LookedUp ==
    UNION {{m.steam_id : m \in {m \in Range(demo[i].voice) : m.ok}} :
             i \in {i \in 1..Len(demo) : ~demo[i].startup}}

\* C16: nothing is decoded before the scan is over; once it is over the
\* speakers are exactly the keys of the messages the frame loop looks up;
\* no step after the scan creates or drops a speaker, and the lookup of a
\* voice message's key never fails.
C16_ScanFirst ==
    /\ [][phase # "Scanning" => DOMAIN players' = DOMAIN players]_vars
    /\ [](/\ fault # "UnknownSpeaker"
          /\ phase = "Scanning" =>
                /\ idx = 1 /\ midx = 1
                /\ lastDecode = NoDecode /\ lastTick = NoTick
                /\ players = << >>
          /\ phase # "Scanning" =>
                /\ DOMAIN players = LookedUp
                /\ lastDecode.status # "none" => lastDecode.key \in DOMAIN players)

C16_Witness ==
    /\ fault = "none"
    /\ lastDecode.status = "ok"
    /\ Heard(1) # {}
    /\ lastDecode.key \notin Heard(1)
    /\ lastDecode.key \in DOMAIN players

\* C17, as stated: every entry that gets as far as the sequence update leaves
\* expectedSequence at seq + 1 as a 16-bit value, seq = 65535 included, and
\* the update neither overflows nor ends the process.
C17_Original ==
    \A e \in DecodeEvents :
        e.kind = "entry" =>
            /\ e.status # "Panic"
            /\ e.status \in {"run", "InsufficientData"} =>
                  e.seqAfter = (e.seq + 1) % 65536

\* the runs of rs that came out of a backlog, zero padding left out
RECURSIVE RealRuns(_)
RealRuns(rs) ==
    IF rs = << >> THEN << >>
    ELSE IF Head(rs).src = 0 THEN RealRuns(Tail(rs))
    ELSE RunsCat(<<Head(rs)>>, RealRuns(Tail(rs)))

\* the bytes with serial numbers a .. b, in order
Serials(a, b) == IF b < a THEN << >> ELSE <<Run(a, b - a + 1)>>

\* C18: the bytes of a speaker's backlog that were released are, in order and
\* each once, the first bytes appended; the backlog holds the rest in arrival
\* order, so bytes appended = real bytes released + bytes in the backlog; a
\* tick that finds the speaker not playing takes nothing out of the backlog.
C18_Fifo ==
    /\ \A p \in DOMAIN players :
          /\ RealRuns(Stream(p)) = Serials(1, RunsReal(Stream(p)))
          /\ players[p].decoded_samples
                = Serials(RunsReal(Stream(p)) + 1, players[p].appended)
          /\ players[p].appended
                = RunsReal(Stream(p)) + buffered_samples(players[p])
    /\ JustTicked =>
          \A p \in DOMAIN players :
              ~lastTick.info[p].playing =>
                  /\ players[p].decoded_samples = lastTick.info[p].backlog
                  /\ RunsReal(lastTick.info[p].out) = 0

C18_Witness ==
    \E p \in DOMAIN players :
        /\ JustTicked
        /\ RunsReal(Stream(p)) > 0
        /\ buffered_samples(players[p]) > 0
        /\ RunsReal(Stream(p)) < RunsLen(Stream(p))
        /\ players[p].appended > 2400 * BytesPerSample(fmt)

\* C19: a speaker that is playing has a non-empty backlog, in every state the
\* driver stops in and so at the end of every frame; playing is switched on
\* only by a tick that found samples buffered, and the tick that empties the
\* backlog switches it off.
C19_PlayingBacklog ==
    /\ \A p \in DOMAIN players :
          players[p].playing => buffered_samples(players[p]) # 0
    /\ JustTicked =>
          \A p \in DOMAIN players :
              /\ lastTick.info[p].playing => RunsLen(lastTick.info[p].backlog) # 0
              /\ players[p].playing
                    = (lastTick.info[p].playing /\ buffered_samples(players[p]) # 0)

C19_Witness ==
    \E p \in DOMAIN players :
        /\ JustTicked
        /\ players[p].playing
        /\ buffered_samples(players[p]) > 0
        /\ RunsReal(lastTick.info[p].out) > 0

====
